---- MODULE Spec2Model ----
(***************************************************************************)
(* A model of releasewatch's automation/tools_update_latest.py:            *)
(*   - update_latest: the two worker pools, the collection of the          *)
(*     futures with as_completed, and the serial write-back into the rows; *)
(*   - http_get: the retry loop with exponential backoff.                  *)
(*                                                                         *)
(* A Python str is a sequence of pieces; a piece is either the whitespace  *)
(* character WS or a whitespace-free word ("git", "1"). An Optional value  *)
(* is a set with at most one element: None is {} and a present v is {v}.   *)
(***************************************************************************)
EXTENDS Integers, Sequences, FiniteSets, TLC

----------------------------------------------------------------------------
(* Bounds of the model. *)

\* longest ledger (list of rows) handed to update_latest
MaxRows == 2

\* largest max_retries handed to http_get
MaxRetries == 3

\* how many times update_latest is called on the same rows
MaxRuns == 2

----------------------------------------------------------------------------
(* Python values. *)

WS == " "

None == {}

Some(v) == {v}

The(opt) == CHOOSE v \in opt : TRUE

\* str.strip(): drops the leading and the trailing whitespace
RECURSIVE lstrip(_)
lstrip(s) == IF s # <<>> /\ Head(s) = WS THEN lstrip(Tail(s)) ELSE s

RECURSIVE rstrip(_)
rstrip(s) == IF s # <<>> /\ s[Len(s)] = WS THEN rstrip(SubSeq(s, 1, Len(s) - 1)) ELSE s

strip(s) == rstrip(lstrip(s))

\* truth value of an Optional[str]: None and "" are false
Truthy(opt) == opt # None /\ The(opt) # <<>>

----------------------------------------------------------------------------
(* The extractor registry. *)

FETCHERS ==
    { <<"python">>, <<"vscode">>, <<"gitea">>, <<"qview">>, <<"teraterm">>,
      <<"idm">>, <<"gpad">>, <<"firefox">>, <<"clibor">>, <<"sakura_editor">>,
      <<"winmerge">>, <<"wireshark">>, <<"libreoffice">>, <<"edge">>,
      <<"windows-terminal">>, <<"virtviewer">>, <<"git">> }

GITHUB_FETCHERS ==
    { <<"gitea">>, <<"qview">>, <<"teraterm">>, <<"windows-terminal">>, <<"git">> }

\* default of update_latest's parameter workers
DefaultWorkers == 5

\* default of update_latest's parameter github_workers
DefaultGithubWorkers == 2

----------------------------------------------------------------------------
(* Inputs: the rows of the ledger, the pool sizes, what an extractor does. *)

Row(name, formal, desired, latest, note) ==
    [ name |-> name, formal_name |-> formal, desired_version |-> desired,
      latest_version |-> latest, note |-> note ]

\* the rows a ledger is made of: registered names of both pools, a name that
\* is registered only once trimmed, an unregistered name and a blank name
RowPool ==
    { Row(<<"git">>, <<"Git">>, <<"1">>, <<"1">>, <<"scm">>),
      Row(<<WS, "git">>, <<>>, <<>>, <<WS, "1">>, <<>>),
      Row(<<"python">>, <<"Python">>, <<"1">>, <<>>, <<"lang">>),
      Row(<<"foo">>, <<"Foo">>, <<"1">>, <<"1">>, <<"misc">>),
      Row(<<WS>>, <<>>, <<"1">>, <<>>, <<>>) }

Ledgers == UNION { [1..n -> RowPool] : n \in 0..MaxRows }

\* (workers, github_workers) of a call: one worker each, or the defaults
PoolSizes == { <<1, 1>>, <<DefaultWorkers, DefaultGithubWorkers>> }

\* what an extractor may return: absence, "", a blank, a version, a padded version
Returns == { None, Some(<<>>), Some(<<WS>>), Some(<<"1">>), Some(<<WS, "1">>) }

\* the classes of the exceptions an extractor raises (transport, JSON parse)
ExcTypes == { "URLError", "JSONDecodeError" }

\* the exception raised by the call of future i: the object is its own
Exc(type, i) == [ type |-> type, id |-> i ]

\* the ways a call of an extractor may end: it returns a value or raises
Behaviours ==
    { [ kind |-> "return", value |-> v, type |-> "" ] : v \in Returns }
    \cup { [ kind |-> "raise", value |-> None, type |-> t ] : t \in ExcTypes }

\* behaviour b as it happens in the call made by future i
Outcome(b, i) ==
    [ kind |-> b.kind, value |-> b.value,
      exc |-> IF b.kind = "raise" THEN Some(Exc(b.type, i)) ELSE None ]

----------------------------------------------------------------------------
(* The state. *)

VARIABLES
    rows,            \* the list of rows update_latest mutates in place
    rows0,           \* the rows as they were when the first call began
    rows1,           \* the rows as they were when the latest call began
    workers,         \* parameter workers of the call
    github_workers,  \* parameter github_workers of the call
    pc,              \* where update_latest is: "call", "pool", "done", "raised"
    row_map,         \* name -> index of the row kept under that name
    futures,         \* the submitted futures, in submission order
    collected,       \* the futures as_completed has yielded so far
    results,         \* name -> <<result, exc>>
    updated,         \* the counter update_latest returns
    run,             \* how many calls of update_latest have begun
    stub,            \* name -> behaviour, when the extractors are stubbed
    max_retries,     \* parameter max_retries of the call of http_get
    attempt,         \* the loop variable of http_get
    hpc,             \* where http_get is: "idle", "call", "loop", "returned", "raised"
    tried,           \* how each attempt made so far ended
    slept,           \* the seconds of each time.sleep made so far
    http_out,        \* what http_get returned or raised
    url,             \* the url argument of http_get
    GITHUB_TOKEN,    \* os.environ.get("GITHUB_TOKEN"), read once at import
    headers,         \* the headers of the request, by name
    releases,        \* json.loads(body) of get_gitea_latest: the releases
    gpc,             \* where get_gitea_latest is: "idle", "scan", "sort", "returned"
    scanned,         \* how many releases the first loop has taken
    versions,        \* its list of (major, minor, ver)
    gitea_out,       \* what get_gitea_latest returned
    csv,             \* the rows of the CSV file the checklist tools work on
    csv0,            \* (ghost) the rows before the apply step
    updates,         \* the updates list of the last run of the generator
    updates1,        \* (ghost) the updates list of its first run
    stdout,          \* the lines the generator printed
    status,          \* its exit status, None while it has not exited
    marks,           \* (ghost) the mark the reader put in each item
    pr_body,         \* the text given to the apply step as --pr-body
    checked_names,   \* parse_checklist(pr_body)
    written,         \* whether the apply step wrote --out
    cpc              \* where the checklist round is

vars == << rows, rows0, rows1, workers, github_workers, pc, row_map, futures,
           collected, results, updated, run, stub,
           max_retries, attempt, hpc, tried, slept, http_out,
           url, GITHUB_TOKEN, headers,
           releases, gpc, scanned, versions, gitea_out,
           csv, csv0, updates, updates1, stdout, status, marks, pr_body,
           checked_names, written, cpc >>

uvars == << rows, rows0, rows1, workers, github_workers, pc, row_map, futures,
            collected, results, updated, run, stub >>

cvars == << csv, csv0, updates, updates1, stdout, status, marks, pr_body,
            checked_names, written, cpc >>

gvars == << releases, gpc, scanned, versions, gitea_out >>

reqvars == << url, GITHUB_TOKEN, headers >>

hvars == << max_retries, attempt, hpc, tried, slept, http_out, reqvars >>

----------------------------------------------------------------------------
(* update_latest, lines 318-333: the valid rows and their fetchers. *)

\* (row.get("name") or "").strip()
NameOf(row) == strip(row.name)

\* (mutant) the lookup in FETCHERS is not checked
ValidAnyName(rs) == { i \in DOMAIN rs : NameOf(rs[i]) # <<>> }

\* the rows that get past both `continue`s
Valid(rs) == { i \in DOMAIN rs : NameOf(rs[i]) # <<>> /\ NameOf(rs[i]) \in FETCHERS }

Max(S) == CHOOSE m \in S : \A k \in S : k <= m

\* row_map[name] = row, for every valid row in turn: the last one stays
RowMap(rs) ==
    [ n \in { NameOf(rs[i]) : i \in Valid(rs) } |->
        Max({ i \in Valid(rs) : NameOf(rs[i]) = n }) ]

\* the pool a name is run in
PoolOf(name) == IF name \in GITHUB_FETCHERS THEN "github" ELSE "other"

Indices(rs) == [ i \in 1..Len(rs) |-> i ]

\* github_tasks / other_tasks: one task per valid row, in row order
Tasks(rs, pool) ==
    LET in(i) == i \in Valid(rs) /\ PoolOf(NameOf(rs[i])) = pool
        idx == SelectSeq(Indices(rs), in)
    IN  [ k \in 1..Len(idx) |-> [ name |-> NameOf(rs[idx[k]]), row |-> idx[k] ] ]

\* pool.submit(_fetch_one, name, fetcher): a pending future; row (the row
\* the task was made for) and did (how the fetcher ended) are kept for the
\* properties only
Submit(task, pool) ==
    [ name |-> task.name, row |-> task.row, pool |-> pool, state |-> "PENDING",
      did |-> None, returned |-> None, raised |-> None ]

\* futures: the other pool's tasks first, then the github pool's
Submitted(rs) ==
    LET other == Tasks(rs, "other")
        github == Tasks(rs, "github")
    IN  [ k \in 1..Len(other) |-> Submit(other[k], "other") ]
        \o [ k \in 1..Len(github) |-> Submit(github[k], "github") ]

----------------------------------------------------------------------------
(* _fetch_one and the pools. *)

\* (mutant) _fetch_one without its try/except: the exception escapes
_fetch_one_uncaught(name, o) ==
    IF o.kind = "return"
    THEN [ returned |-> Some(<< name, o.value, None >>), raised |-> None ]
    ELSE [ returned |-> None, raised |-> o.exc ]

\* (mutant) the failure tuple carries an empty version beside the exception
_fetch_one_both(name, o) ==
    IF o.kind = "return"
    THEN [ returned |-> Some(<< name, o.value, None >>), raised |-> None ]
    ELSE [ returned |-> Some(<< name, Some(<<>>), o.exc >>), raised |-> None ]

\* _fetch_one(name, fetcher) when the fetcher ends as o: what the future
\* holds, a returned tuple (name, result, exc) or an escaped exception
_fetch_one(name, o) ==
    IF o.kind = "return"
    THEN [ returned |-> Some(<< name, o.value, None >>), raised |-> None ]
    ELSE [ returned |-> Some(<< name, None, o.exc >>), raised |-> None ]

\* ThreadPoolExecutor(max_workers=...): the size of each pool
max_workers(pool) == IF pool = "github" THEN github_workers ELSE workers

Running(pool) ==
    { i \in DOMAIN futures : futures[i].pool = pool /\ futures[i].state = "RUNNING" }

\* (mutant) a worker is kept in reserve: a pool of n runs n - 1 tasks
FreeWorkerButOne(pool) == Cardinality(Running(pool)) < max_workers(pool) - 1

\* (mutant) a pool that starts a thread for every task
FreeWorkerAlways(pool) == TRUE

\* a pool runs a further task only on a free worker
FreeWorker(pool) == Cardinality(Running(pool)) < max_workers(pool)

\* the work queue of a pool is first in, first out
HeadOfQueue(i) ==
    \A j \in DOMAIN futures :
        (j < i /\ futures[j].pool = futures[i].pool) => futures[j].state # "PENDING"

----------------------------------------------------------------------------
(* update_latest, lines 352-366: the results are written into the rows. *)

\* results.get(name, (None, None))
Get(res, name) == IF name \in DOMAIN res THEN res[name] ELSE << None, None >>

\* the value written for a name: the stripped result
Latest(res, name) == strip(The(Get(res, name)[1]))

\* (mutant) the row is overwritten without being compared with the result
WritesAlways(rs, rmap, res, name) ==
    /\ Get(res, name)[2] = None
    /\ Truthy(Get(res, name)[1])
    /\ Latest(res, name) # <<>>

\* the row kept under a name is overwritten and counted
Writes(rs, rmap, res, name) ==
    /\ Get(res, name)[2] = None
    /\ Truthy(Get(res, name)[1])
    /\ Latest(res, name) # <<>>
    /\ rs[rmap[name]].latest_version # Latest(res, name)

\* (mutant) the new version is written into desired_version as well
WriteBoth(row, latest) ==
    [ row EXCEPT !.latest_version = latest, !.desired_version = latest ]

\* row["latest_version"] = latest
Write(row, latest) == [ row EXCEPT !.latest_version = latest ]

\* (mutant) updated += 1 for every name with a result, written or not
ReconciledCountingResults(rs, rmap, res) ==
    [ rows |->
        [ i \in DOMAIN rs |->
            IF \E n \in DOMAIN rmap : rmap[n] = i /\ Writes(rs, rmap, res, n)
            THEN Write(rs[i], Latest(res, CHOOSE n \in DOMAIN rmap : rmap[n] = i))
            ELSE rs[i] ],
      updated |-> Cardinality({ n \in DOMAIN rmap :
                                  Get(res, n)[2] = None /\ Truthy(Get(res, n)[1]) }) ]

\* the rows and the counter after the loop over row_map
Reconciled(rs, rmap, res) ==
    [ rows |->
        [ i \in DOMAIN rs |->
            IF \E n \in DOMAIN rmap : rmap[n] = i /\ Writes(rs, rmap, res, n)
            THEN Write(rs[i], Latest(res, CHOOSE n \in DOMAIN rmap : rmap[n] = i))
            ELSE rs[i] ],
      updated |-> Cardinality({ n \in DOMAIN rmap : Writes(rs, rmap, res, n) }) ]

----------------------------------------------------------------------------
(* http_get: what an attempt may meet, and the retry policy. *)

\* the classes of an exception's class, itself included (urllib.error:
\* HTTPError is a subclass of URLError, URLError of OSError)
Bases(type) ==
    CASE type = "HTTPError" -> { "HTTPError", "URLError", "OSError", "Exception" }
      [] type = "URLError" -> { "URLError", "OSError", "Exception" }
      [] type = "TimeoutError" -> { "TimeoutError", "OSError", "Exception" }
      [] type = "LookupError" -> { "LookupError", "Exception" }
      [] type = "RuntimeError" -> { "RuntimeError", "Exception" }

isinstance(exc, classes) == Bases(exc.type) \cap classes # {}

_is_retryable(exc) ==
    IF isinstance(exc, { "URLError", "TimeoutError" }) THEN TRUE
    ELSE IF isinstance(exc, { "HTTPError" }) /\ exc.code >= 500 THEN TRUE
    ELSE FALSE

\* how urlopen, read and decode may end on one attempt: a decoded text, a
\* connection or timeout failure, an HTTP error status, an unknown charset
Conditions ==
    { [ kind |-> "text", text |-> t, type |-> "", code |-> 0 ] : t \in { "a", "b" } }
    \cup { [ kind |-> "raise", text |-> "", type |-> t, code |-> 0 ] :
               t \in { "URLError", "TimeoutError", "LookupError" } }
    \cup { [ kind |-> "raise", text |-> "", type |-> "HTTPError", code |-> c ] :
               c \in { 404, 500 } }

\* the exception object raised on attempt k (counted from 0)
Raised(c, k) == [ type |-> c.type, code |-> c.code, id |-> k ]

\* the attempt is the last one the loop makes
LastAttempt(k, n) == k >= n - 1

\* (mutant) the backoff starts at 2 seconds
sleep_sec_late(k) == 2 ^ (k + 1)

\* sleep_sec = 2 ** attempt
sleep_sec(k) == 2 ^ k

\* the host "api.github.com", as it is written in a URL
ApiHost == "api.github.com"

\* a URL is kept as its pieces: the scheme, the pieces of the host, "/", and
\* the pieces of the path and the query
Urls ==
    { << "https://", ApiHost, "/", "repos" >>,
      << "https://", "example.org", "/", "repos" >>,
      << "https://", "example.org", "/", ApiHost >>,
      << "https://", "example.org", "/", "repos", "?u=", ApiHost >>,
      << "https://", ApiHost, ".evil.org", "/", "repos" >> }

\* the values GITHUB_TOKEN can have: unset, set to "", set to a token
Tokens == { None, Some(<< >>), Some(<< "t0ken" >>) }

\* the host of a URL: what stands between the scheme and the first "/"
Host(u) ==
    LET slash == CHOOSE k \in DOMAIN u : u[k] = "/" /\ \A j \in 1..(k - 1) : u[j] # "/"
    IN  SubSeq(u, 2, slash - 1)

\* `piece in s` for str: the piece occurs somewhere in the string
In(piece, s) == \E k \in DOMAIN s : s[k] = piece

\* lines 40-46: the headers every request carries
BaseHeaders ==
    [ h \in { "User-Agent", "Accept", "Accept-Language", "Accept-Encoding", "Connection" } |->
        CASE h = "User-Agent" -> << "Mozilla/5.0" >>
          [] h = "Accept" -> << "text/html,application/json;q=0.9,*/*;q=0.8" >>
          [] h = "Accept-Language" -> << "ja,en-US;q=0.9,en;q=0.8" >>
          [] h = "Accept-Encoding" -> << "gzip,deflate" >>
          [] h = "Connection" -> << "close" >> ]

\* lines 40-49: the headers of the request for u when the token is t
Headers(u, t) ==
    IF In(ApiHost, u) /\ Truthy(t)
    THEN [ h \in DOMAIN BaseHeaders \cup { "Authorization" } |->
             IF h = "Authorization" THEN << "Bearer " >> \o The(t) ELSE BaseHeaders[h] ]
    ELSE BaseHeaders

ChecklistIdle ==
    /\ csv = << >>
    /\ csv0 = << >>
    /\ updates = << >>
    /\ updates1 = << >>
    /\ stdout = << >>
    /\ status = None
    /\ marks = << >>
    /\ pr_body = << >>
    /\ checked_names = {}
    /\ written = FALSE
    /\ cpc = "idle"

GiteaIdle ==
    /\ releases = << >>
    /\ gpc = "idle"
    /\ scanned = 0
    /\ versions = << >>
    /\ gitea_out = None

HttpIdle ==
    /\ url = << >>
    /\ GITHUB_TOKEN = None
    /\ headers = << >>
    /\ max_retries = 0
    /\ attempt = 0
    /\ hpc = "idle"
    /\ tried = << >>
    /\ slept = << >>
    /\ http_out = None

\* lines 38-51: the headers are built and the request is made
Request ==
    /\ hpc = "call"
    /\ headers' = Headers(url, GITHUB_TOKEN)
    /\ hpc' = "loop"
    /\ UNCHANGED << url, GITHUB_TOKEN, max_retries, attempt, tried, slept, http_out, uvars, gvars, cvars >>

\* lines 54-81: one turn of the loop, its sleep included
Attempt(c) ==
    /\ hpc = "loop"
    /\ attempt < max_retries
    /\ tried' = Append(tried, c)
    /\ IF c.kind = "text"
       THEN /\ hpc' = "returned"
            /\ http_out' = Some(c.text)
            /\ UNCHANGED << attempt, slept >>
       ELSE IF ~_is_retryable(Raised(c, attempt)) \/ LastAttempt(attempt, max_retries)
       THEN /\ hpc' = "raised"
            /\ http_out' = Some(Raised(c, attempt))
            /\ UNCHANGED << attempt, slept >>
       ELSE /\ slept' = Append(slept, sleep_sec(attempt))
            /\ attempt' = attempt + 1
            /\ UNCHANGED << hpc, http_out >>
    /\ UNCHANGED << max_retries, reqvars, uvars, gvars, cvars >>

\* line 84: the loop ended without returning or raising
FellThrough ==
    /\ hpc = "loop"
    /\ attempt >= max_retries
    /\ hpc' = "raised"
    /\ http_out' = IF tried # << >>
                   THEN Some(Raised(tried[Len(tried)], Len(tried) - 1))
                   ELSE Some([ type |-> "RuntimeError", code |-> 0, id |-> 0 ])
    /\ UNCHANGED << max_retries, attempt, tried, slept, reqvars, uvars, gvars, cvars >>

InitHttp ==
    /\ url \in Urls
    /\ GITHUB_TOKEN \in Tokens
    /\ headers = << >>
    /\ max_retries \in 0..MaxRetries
    /\ attempt = 0
    /\ hpc = "call"
    /\ tried = << >>
    /\ slept = << >>
    /\ http_out = None
    /\ rows = << >>
    /\ rows0 = << >>
    /\ rows1 = << >>
    /\ workers = DefaultWorkers
    /\ github_workers = DefaultGithubWorkers
    /\ pc = "idle"
    /\ row_map = << >>
    /\ futures = << >>
    /\ collected = {}
    /\ results = << >>
    /\ updated = 0
    /\ run = 0
    /\ stub = << >>
    /\ GiteaIdle
    /\ ChecklistIdle

NextHttp ==
    \/ Request
    \/ \E c \in Conditions : Attempt(c)
    \/ FellThrough

SpecHttp == InitHttp /\ [][NextHttp]_vars

----------------------------------------------------------------------------
(* The actions. *)

Init ==
    /\ rows \in Ledgers
    /\ rows0 = rows
    /\ rows1 = rows
    /\ \E sz \in PoolSizes : workers = sz[1] /\ github_workers = sz[2]
    /\ pc = "call"
    /\ row_map = << >>
    /\ futures = << >>
    /\ collected = {}
    /\ results = << >>
    /\ updated = 0
    /\ run = 1
    /\ stub = << >>
    /\ HttpIdle
    /\ GiteaIdle
    /\ ChecklistIdle

\* lines 318-345: the tasks are gathered and submitted to their pools
Dispatch ==
    /\ pc = "call"
    /\ row_map' = RowMap(rows)
    /\ futures' = Submitted(rows)
    /\ results' = << >>
    /\ collected' = {}
    /\ pc' = "pool"
    /\ UNCHANGED << rows, rows0, rows1, workers, github_workers, updated, run, stub, hvars, gvars, cvars >>

\* a worker of the future's pool takes it from the queue
Start(i) ==
    /\ pc \in { "pool", "raised" }
    /\ futures[i].state = "PENDING"
    /\ HeadOfQueue(i)
    /\ FreeWorker(futures[i].pool)
    /\ futures' = [ futures EXCEPT ![i].state = "RUNNING" ]
    /\ UNCHANGED << rows, rows0, rows1, workers, github_workers, pc, row_map,
                    collected, results, updated, run, stub, hvars, gvars, cvars >>

\* the call of _fetch_one ends, the fetcher having behaved as b
Finish(i, b) ==
    /\ pc \in { "pool", "raised" }
    /\ futures[i].state = "RUNNING"
    /\ LET got == _fetch_one(futures[i].name, Outcome(b, i))
       IN  futures' = [ futures EXCEPT ![i].state = "FINISHED",
                                       ![i].did = Some(b),
                                       ![i].returned = got.returned,
                                       ![i].raised = got.raised ]
    /\ UNCHANGED << rows, rows0, rows1, workers, github_workers, pc, row_map,
                    collected, results, updated, run, stub, hvars, gvars, cvars >>

\* lines 347-349: as_completed yields a finished future; future.result()
\* re-raises what escaped the call, else the tuple goes into results
Collect(i) ==
    /\ pc = "pool"
    /\ futures[i].state = "FINISHED"
    /\ i \notin collected
    /\ collected' = collected \cup { i }
    /\ IF futures[i].raised # None
       THEN /\ pc' = "raised"
            /\ UNCHANGED results
       ELSE LET t == The(futures[i].returned)
            IN  /\ results' = [ n \in DOMAIN results \cup { t[1] } |->
                                  IF n = t[1] THEN << t[2], t[3] >> ELSE results[n] ]
                /\ pc' = pc
    /\ UNCHANGED << rows, rows0, rows1, workers, github_workers, row_map, futures,
                    updated, run, stub, hvars, gvars, cvars >>

\* (mutant) the rows are written as soon as one future has been yielded
JoinedEarly == collected # {} \/ DOMAIN futures = {}

\* the as_completed loop has yielded every future and the with block has
\* shut both pools down
Joined == collected = DOMAIN futures

\* lines 351-366: every future was yielded, both pools have shut down; the
\* rows are updated and the counter is returned
Reconcile ==
    /\ pc = "pool"
    /\ Joined
    /\ LET new == Reconciled(rows, row_map, results)
       IN  /\ rows' = new.rows
           /\ updated' = new.updated
    /\ pc' = "done"
    /\ UNCHANGED << rows0, rows1, workers, github_workers, row_map, futures,
                    collected, results, run, stub, hvars, gvars, cvars >>

Next ==
    \/ Dispatch
    \/ \E i \in DOMAIN futures : Start(i)
    \/ \E i \in DOMAIN futures : \E b \in Behaviours : Finish(i, b)
    \/ \E i \in DOMAIN futures : Collect(i)
    \/ Reconcile

Spec == Init /\ [][Next]_vars

\* the threads of the pools and the calling thread are scheduled: a step
\* that can be taken is taken, and every call of an extractor ends
SpecLive == Init /\ [][Next]_vars /\ WF_vars(Next)

----------------------------------------------------------------------------
(* update_latest called again on the rows it has updated, the extractors   *)
(* being stubs that behave the same way at every call.                     *)

InitTwice ==
    /\ rows \in Ledgers
    /\ rows0 = rows
    /\ rows1 = rows
    /\ \E sz \in PoolSizes : workers = sz[1] /\ github_workers = sz[2]
    /\ pc = "call"
    /\ row_map = << >>
    /\ futures = << >>
    /\ collected = {}
    /\ results = << >>
    /\ updated = 0
    /\ run = 1
    /\ stub \in [ { NameOf(rows[i]) : i \in Valid(rows) } -> Behaviours ]
    /\ HttpIdle
    /\ GiteaIdle
    /\ ChecklistIdle

\* the call of _fetch_one ends as the stub of its name behaves
FinishStub(i) == Finish(i, stub[futures[i].name])

\* the caller calls update_latest(rows) once more
CallAgain ==
    /\ pc = "done"
    /\ run < MaxRuns
    /\ run' = run + 1
    /\ rows1' = rows
    /\ pc' = "call"
    /\ UNCHANGED << rows, rows0, workers, github_workers, row_map, futures,
                    collected, results, updated, stub, hvars, gvars, cvars >>

NextTwice ==
    \/ Dispatch
    \/ \E i \in DOMAIN futures : Start(i)
    \/ \E i \in DOMAIN futures : FinishStub(i)
    \/ \E i \in DOMAIN futures : Collect(i)
    \/ Reconcile
    \/ CallAgain

SpecTwice == InitTwice /\ [][NextTwice]_vars


----------------------------------------------------------------------------
(* Properties of the scheduling part and of http_get. *)

\* the tuple (name, result, exc) a finished future holds
Tuple(i) == The(futures[i].returned)

\* how the fetcher called by future i ended
Did(i) == The(futures[i].did)

\* C1: no exception of an extractor gets out of the scheduling part; every
\* finished call holds the tuple of its own ending (its own exception when
\* it raised, the returned value unchanged otherwise), and results holds
\* exactly one entry for every name collected, taken from a call of that name.
C1_SchedulerIsolation ==
    /\ pc # "raised"
    /\ \A i \in DOMAIN futures :
          futures[i].state = "FINISHED" =>
            /\ futures[i].raised = None
            /\ futures[i].returned # None
            /\ Tuple(i) = IF Did(i).kind = "raise"
                          THEN << futures[i].name, None, Some(Exc(Did(i).type, i)) >>
                          ELSE << futures[i].name, Did(i).value, None >>
    /\ DOMAIN results = { futures[i].name : i \in collected }
    /\ \A n \in DOMAIN results :
          \E i \in collected :
             futures[i].name = n /\ results[n] = << Tuple(i)[2], Tuple(i)[3] >>
    /\ pc = "done" => DOMAIN results = { futures[i].name : i \in DOMAIN futures }

\* a call that raised and a call that returned a version, both collected
C1_Witness ==
    /\ pc = "done"
    /\ \E i, j \in DOMAIN futures :
          /\ Did(i).kind = "raise"
          /\ results[futures[i].name] = << None, Some(Exc(Did(i).type, i)) >>
          /\ Did(j).kind = "return"
          /\ Did(j).value = Some(<<WS, "1">>)
          /\ results[futures[j].name] = << Did(j).value, None >>

\* a condition the retry policy calls fatal: neither a connection or timeout
\* failure nor an HTTP status of 500 or more
Fatal(c) ==
    /\ c.kind = "raise"
    /\ ~ \/ c.type \in { "URLError", "TimeoutError" }
         \/ c.type = "HTTPError" /\ c.code >= 500

Retryable(c) == c.kind = "raise" /\ ~Fatal(c)

\* C2: a fatal condition (an HTTP 4xx among them) is raised by the attempt
\* that met it: it is the last attempt and no sleep follows it.
C2_FatalRaisedAtOnce ==
    max_retries >= 1 =>
        \A k \in DOMAIN tried :
            Fatal(tried[k]) =>
                /\ k = Len(tried)
                /\ Len(slept) = k - 1
                /\ hpc = "raised"
                /\ http_out = Some(Raised(tried[k], k - 1))

\* C3: the k-th sleep lasts 2^(k-1) seconds; when every attempt meets a
\* retryable condition there are max_retries attempts, a sleep after each
\* but the last, and the last attempt's exception is raised; an attempt that
\* succeeds is the last one and its text is returned.
C3_RetryBackoff ==
    max_retries >= 1 =>
        /\ Len(tried) <= max_retries
        /\ \A k \in DOMAIN slept : slept[k] = 2 ^ (k - 1)
        /\ (\A k \in DOMAIN tried : Retryable(tried[k])) =>
              /\ Len(slept) = IF Len(tried) = max_retries
                              THEN max_retries - 1 ELSE Len(tried)
              /\ hpc = "raised" <=> Len(tried) = max_retries
              /\ hpc = "raised" =>
                    http_out = Some(Raised(tried[max_retries], max_retries - 1))
        /\ \A k \in DOMAIN tried :
              tried[k].kind = "text" =>
                 /\ k = Len(tried)
                 /\ hpc = "returned"
                 /\ http_out = Some(tried[k].text)

\* three attempts, all retryable in the policy's sense, sleeps of 1 s and 2 s
C3_Witness ==
    /\ max_retries = 3
    /\ hpc = "raised"
    /\ Len(tried) = 3
    /\ \A k \in DOMAIN tried : Retryable(tried[k])
    /\ slept = << 1, 2 >>
    /\ http_out = Some(Raised(tried[3], 2))

----------------------------------------------------------------------------
(* Properties of the write-back. *)

\* the result collected under the name of row i
ResultOf(i) == Get(results, NameOf(rows0[i]))

\* the rows whose latest_version is no longer what it was before the call
Changed == { i \in DOMAIN rows : rows[i].latest_version # rows0[i].latest_version }

\* row i has a registered extractor whose collected result is a success
\* with a value that, trimmed, is non-empty and differs from the row's
Fresh(i) ==
    /\ i \in Valid(rows0)
    /\ ResultOf(i)[2] = None
    /\ Truthy(ResultOf(i)[1])
    /\ strip(The(ResultOf(i)[1])) # <<>>
    /\ strip(The(ResultOf(i)[1])) # rows0[i].latest_version

\* every call made for the name of row i returned the collected result
AllReturned(i) ==
    \A k \in DOMAIN futures :
        futures[k].name = NameOf(rows0[i]) =>
            Did(k).kind = "return" /\ Did(k).value = ResultOf(i)[1]

\* the rows due an update: a fresh result, returned by every
\* call of the row's extractor
Due == { i \in DOMAIN rows0 : Fresh(i) /\ AllReturned(i) }

\* C4: after the call every row whose extractor succeeded with a new value,
\* rows of the same name included, holds that value (trimmed) and is counted.
C4_EveryRowUpdated ==
    pc = "done" =>
        /\ \A i \in Due : rows[i].latest_version = strip(The(ResultOf(i)[1]))
        /\ updated >= Cardinality(Due)

\* C5: a row whose call raised keeps its latest_version and nothing is
\* raised; when some call raised, every row whose own call returned a new
\* value is updated all the same.
C5_FailuresIsolated ==
    /\ pc # "raised"
    /\ pc = "done" =>
          \A i \in DOMAIN futures :
             LET r == futures[i].row
                 v == Did(i).value
             IN  /\ Did(i).kind = "raise" =>
                       rows[r].latest_version = rows0[r].latest_version
                 /\ ( /\ \E j \in DOMAIN futures : Did(j).kind = "raise"
                      /\ Did(i).kind = "return"
                      /\ Truthy(v)
                      /\ strip(The(v)) # <<>>
                      /\ strip(The(v)) # rows0[r].latest_version )
                    => rows[r].latest_version = strip(The(v))

\* the name of row i is blank or no key of the registry
Unrecognized(i) == NameOf(rows0[i]) = <<>> \/ NameOf(rows0[i]) \notin FETCHERS

\* C6: a row whose trimmed name is empty or unregistered stays as it was,
\* field by field, and no task is ever made for it.
C6_UnregisteredUntouched ==
    /\ DOMAIN rows = DOMAIN rows0
    /\ \A i \in DOMAIN rows0 :
          Unrecognized(i) =>
             /\ rows[i] = rows0[i]
             /\ \A k \in DOMAIN futures : futures[k].row # i

\* a row of unrecognized name has passed through a call that updated a row
C6_Witness ==
    /\ pc = "done"
    /\ updated > 0
    /\ \E i \in DOMAIN rows0 : Unrecognized(i) /\ rows[i] = rows0[i]

\* a result that is None or ""
Absent(opt) == opt = None \/ The(opt) = <<>>

\* C7 as stated: the number returned is the number of rows changed, and a
\* row whose result equals its latest_version, or is None or "", is unchanged.
C7_CountAsStated ==
    pc = "done" =>
        /\ updated = Cardinality(Changed)
        /\ \A i \in Valid(rows0) :
              ( /\ ResultOf(i)[2] = None
                /\ \/ Absent(ResultOf(i)[1])
                   \/ The(ResultOf(i)[1]) = rows0[i].latest_version )
              => i \notin Changed

\* C7 (amended): the number returned is the number of rows changed, and a
\* row whose collected result, once trimmed, equals its latest_version, or
\* is None, "" or blank, is unchanged.
C7_CountOfChangedRows ==
    pc = "done" =>
        /\ updated = Cardinality(Changed)
        /\ \A i \in Valid(rows0) :
              ( /\ ResultOf(i)[2] = None
                /\ \/ Absent(ResultOf(i)[1])
                   \/ strip(The(ResultOf(i)[1])) = <<>>
                   \/ strip(The(ResultOf(i)[1])) = rows0[i].latest_version )
              => i \notin Changed

\* one row is updated, another got a padded result that trims to its value
C7_Witness ==
    /\ pc = "done"
    /\ updated = 1
    /\ \E i \in Valid(rows0) :
          /\ ResultOf(i) = << Some(<<WS, "1">>), None >>
          /\ rows0[i].latest_version = <<"1">>
          /\ i \notin Changed

\* every stub returns: no extractor fails
StubsSucceed == \A n \in DOMAIN stub : stub[n].kind = "return"

\* C8: with extractors that return the same values at every call, a second
\* call returns 0 and leaves the rows as the first call left them.
C8_Idempotent ==
    (run >= 2 /\ pc = "done" /\ StubsSucceed) => (rows = rows1 /\ updated = 0)

\* the first call changed a row, the second call has returned
C8_Witness ==
    /\ run = 2
    /\ pc = "done"
    /\ StubsSucceed
    /\ rows1 # rows0
    /\ rows = rows1

\* every field but latest_version
SameButLatest(a, b) ==
    /\ a.name = b.name
    /\ a.formal_name = b.formal_name
    /\ a.desired_version = b.desired_version
    /\ a.note = b.note

\* the values returned by the calls made for the name of row i
ReturnedFor(i) ==
    { The(Did(k).value) : k \in { k \in DOMAIN futures :
          /\ futures[k].name = NameOf(rows0[i])
          /\ futures[k].state = "FINISHED"
          /\ Did(k).kind = "return"
          /\ Did(k).value # None } }

\* C9 as stated: rows are neither added, removed nor reordered, only
\* latest_version is written, and only on a row whose registered extractor
\* returned a non-empty value different from the row's.
C9_OnlyLatestAsStated ==
    /\ Len(rows) = Len(rows0)
    /\ \A i \in DOMAIN rows0 :
          /\ SameButLatest(rows[i], rows0[i])
          /\ i \in Changed =>
                /\ i \in Valid(rows0)
                /\ \E v \in ReturnedFor(i) :
                      v # <<>> /\ v # rows0[i].latest_version

\* C9 (amended): as above, the value being compared once trimmed: the row
\* changes only to a returned value that, trimmed, is non-empty and differs
\* from the row's, and it holds that trimmed value.
C9_OnlyLatestWritten ==
    /\ Len(rows) = Len(rows0)
    /\ \A i \in DOMAIN rows0 :
          /\ SameButLatest(rows[i], rows0[i])
          /\ i \in Changed =>
                /\ i \in Valid(rows0)
                /\ \E v \in ReturnedFor(i) :
                      /\ strip(v) # <<>>
                      /\ strip(v) # rows0[i].latest_version
                      /\ rows[i].latest_version = strip(v)

\* a row was rewritten; its other fields are not empty
C9_Witness ==
    /\ pc = "done"
    /\ \E i \in Changed :
          /\ rows0[i].desired_version # <<>>
          /\ rows0[i].note # <<>>
          /\ rows[i].latest_version = <<"1">>

\* C10: a future is in the github pool exactly when its name is in
\* GITHUB_FETCHERS, in the other pool otherwise; at most github_workers
\* futures of the first and workers futures of the second run at any time;
\* the defaults are 5 and 2.
C10_PoolsBounded ==
    /\ \A i \in DOMAIN futures :
          futures[i].pool =
              IF futures[i].name \in GITHUB_FETCHERS THEN "github" ELSE "other"
    /\ Cardinality(Running("github")) <= github_workers
    /\ Cardinality(Running("other")) <= workers
    /\ DefaultWorkers = 5
    /\ DefaultGithubWorkers = 2

\* a full pool with a task waiting in its queue
C10_Witness ==
    \E p \in { "github", "other" } :
        /\ Cardinality(Running(p)) = max_workers(p)
        /\ \E i \in DOMAIN futures : futures[i].pool = p /\ futures[i].state = "PENDING"


----------------------------------------------------------------------------
(* Properties of the order of the steps of update_latest. *)

\* a future that has not finished or has not been yielded yet
Outstanding == { i \in DOMAIN futures : futures[i].state # "FINISHED" \/ i \notin collected }

\* C14: no row is written while a future is pending, running or not yet
\* collected; a row is written only by the step of the calling thread that
\* follows the shutdown of both pools.
C14_WritesAfterJoin ==
    /\ [](Outstanding # {} => rows = rows0)
    /\ [][rows' # rows => (pc = "pool" /\ Outstanding = {} /\ pc' = "done")]_vars

\* a row was written after two extractors had run
C14_Witness ==
    /\ pc = "done"
    /\ rows # rows0
    /\ Len(futures) = 2
    /\ Outstanding = {}

\* C17: the tuple of _fetch_one never holds both a version and an error: the
\* raised exception and no version when the fetcher raises, no error and the
\* returned value (which may be None) when it returns.
C17_VersionOrError ==
    \A i \in DOMAIN futures :
        futures[i].state = "FINISHED" =>
            /\ futures[i].returned # None
            /\ ~ (Tuple(i)[2] # None /\ Tuple(i)[3] # None)
            /\ Did(i).kind = "raise" =>
                  Tuple(i)[2] = None /\ Tuple(i)[3] = Some(Exc(Did(i).type, i))
            /\ Did(i).kind = "return" =>
                  Tuple(i)[2] = Did(i).value /\ Tuple(i)[3] = None

\* a fetcher returned None: neither a version nor an error
C17_Witness ==
    \E i \in DOMAIN futures :
        /\ futures[i].state = "FINISHED"
        /\ Did(i).kind = "return"
        /\ Tuple(i) = << futures[i].name, None, None >>

\* results had the futures been yielded in the order of their submission
InOrder ==
    [ n \in { futures[i].name : i \in DOMAIN futures } |->
        LET k == Max({ i \in DOMAIN futures : futures[i].name = n })
        IN  << Tuple(k)[2], Tuple(k)[3] >> ]

\* C18: the rows and the count at the end are those of the run in which the
\* same calls, ending the same way, are yielded in submission order: the
\* order of completion does not matter.
C18_OrderIndependent ==
    pc = "done" =>
        /\ rows = Reconciled(rows0, row_map, InOrder).rows
        /\ updated = Reconciled(rows0, row_map, InOrder).updated

\* C19: every future is started, finished and collected and update_latest
\* returns; a pool with a waiting task and a free worker can start it
\* whatever the other pool is doing.
C19_Terminates ==
    /\ <>(pc = "done" /\ Outstanding = {})
    /\ [](\A i \in DOMAIN futures :
            ( /\ pc = "pool"
              /\ futures[i].state = "PENDING"
              /\ HeadOfQueue(i)
              /\ Cardinality(Running(futures[i].pool)) < max_workers(futures[i].pool) )
            => ENABLED Start(i))

\* two tasks went through a pool of one worker, one of them raising
C19_Witness ==
    /\ pc = "done"
    /\ Len(futures) = 2
    /\ futures[1].pool = futures[2].pool
    /\ max_workers(futures[1].pool) = 1
    /\ Did(1).kind = "raise"
    /\ collected = { 1, 2 }


----------------------------------------------------------------------------
(* The credential of http_get. *)

\* C15: the Authorization header is in the request only if the host of the
\* URL is api.github.com and a token is configured; a URL of another host
\* never gets it, whatever its path or query holds.
C15_TokenOnlyToApiHost ==
    hpc # "call" =>
        ( "Authorization" \in DOMAIN headers
            => Host(url) = << ApiHost >> /\ Truthy(GITHUB_TOKEN) )


----------------------------------------------------------------------------
(* get_gitea_latest, lines 123-159. *)

\* the most releases a reply holds
MaxReleases == 3

\* the decimal numerals that occur in the tags, and int() of each
Numerals == { "0", "1", "2", "9", "10", "11", "15", "16", "17", "18" }

IntOf(d) ==
    CASE d = "0" -> 0 [] d = "1" -> 1 [] d = "2" -> 2 [] d = "9" -> 9
      [] d = "10" -> 10 [] d = "11" -> 11 [] d = "15" -> 15 [] d = "16" -> 16
      [] d = "17" -> 17 [] d = "18" -> 18

\* a release of the reply: the tag is kept as its pieces (WS, "v", ".", a
\* numeral, or a text without digits)
Release(tag, pre, draft) == [ tag_name |-> tag, prerelease |-> pre, draft |-> draft ]

ReleasePool ==
    { Release(<< "v", "2", ".", "17", ".", "0" >>, FALSE, FALSE),
      Release(<< "v", "2", ".", "16", ".", "9" >>, FALSE, FALSE),
      Release(<< "v", "2", ".", "16", ".", "10" >>, FALSE, FALSE),
      Release(<< WS, "2", ".", "15", ".", "0" >>, FALSE, FALSE),
      Release(<< "v", "1", ".", "9", ".", "0" >>, FALSE, FALSE),
      Release(<< "v", "2", ".", "0", ".", "0" >>, FALSE, FALSE),
      Release(<< "v", "2", ".", "18", ".", "0", "-rc", "1" >>, TRUE, FALSE),
      Release(<< "v", "2", ".", "16", ".", "11" >>, FALSE, TRUE),
      Release(<< "nightly" >>, FALSE, FALSE),
      Release(<< >>, FALSE, FALSE) }

\* tag[1:] if tag.startswith("v") else tag, after tag.strip()
_strip_v_prefix(tag) ==
    LET t == strip(tag)
    IN  IF t # << >> /\ Head(t) = "v" THEN Tail(t) ELSE t

\* str.split("."): the pieces between the dots
RECURSIVE split(_)
split(s) ==
    IF \A k \in DOMAIN s : s[k] # "."
    THEN << s >>
    ELSE LET dot == CHOOSE k \in DOMAIN s : s[k] = "." /\ \A j \in 1..(k - 1) : s[j] # "."
         IN  << SubSeq(s, 1, dot - 1) >> \o split(SubSeq(s, dot + 1, Len(s)))

\* int(part): the number of a part that is one numeral, None for ValueError
int(part) ==
    IF Len(part) = 1 /\ part[1] \in Numerals THEN Some(IntOf(part[1])) ELSE None

\* tuple(int(x) for x in re.findall(r"\d+", v)): the numbers of the digit runs
RECURSIVE _parse_semver_tuple(_)
_parse_semver_tuple(v) ==
    IF v = << >> THEN << >>
    ELSE IF Head(v) \in Numerals
         THEN << IntOf(Head(v)) >> \o _parse_semver_tuple(Tail(v))
         ELSE _parse_semver_tuple(Tail(v))

\* a < b for tuples of int, as Python compares them
RECURSIVE TupleLess(_, _)
TupleLess(a, b) ==
    IF b = << >> THEN FALSE
    ELSE IF a = << >> THEN TRUE
    ELSE IF Head(a) # Head(b) THEN Head(a) < Head(b)
    ELSE TupleLess(Tail(a), Tail(b))

\* (mutant) the sort looks at the major and the minor only
KeyOfPairOnly(x) == << x.major, x.minor >>

\* the sort key (x[0], x[1], _parse_semver_tuple(x[2])): the tuple within a
\* tuple compares as the three laid end to end
Key(x) == << x.major, x.minor >> \o _parse_semver_tuple(x.ver)


\* list.sort(key=..., reverse=True): descending and stable
RECURSIVE InsertDescending(_, _)
InsertDescending(sorted, x) ==
    IF sorted = << >> THEN << x >>
    ELSE IF TupleLess(Key(Head(sorted)), Key(x)) THEN << x >> \o sorted
    ELSE << Head(sorted) >> \o InsertDescending(Tail(sorted), x)

RECURSIVE SortDescending(_)
SortDescending(vs) ==
    IF vs = << >> THEN << >>
    ELSE InsertDescending(SortDescending(SubSeq(vs, 1, Len(vs) - 1)), vs[Len(vs)])

\* lines 152-157: the test the second loop makes on an entry
Wanted(x, latest_major, latest_minor) ==
    \/ x.major = latest_major /\ x.minor = latest_minor - 1
    \/ x.major = latest_major - 1

\* lines 151-159: the ver of the first wanted entry of the sorted list
Selected(sorted) ==
    LET hits == { k \in DOMAIN sorted : Wanted(sorted[k], sorted[1].major, sorted[1].minor) }
    IN  IF hits = {} THEN None
        ELSE Some(sorted[CHOOSE k \in hits : \A j \in hits : k <= j].ver)

\* lines 129-141: one turn of the first loop
Scan ==
    /\ gpc = "scan"
    /\ scanned < Len(releases)
    /\ LET rel == releases[scanned + 1]
           tag == strip(rel.tag_name)
           ver == _strip_v_prefix(tag)
           parts == split(ver)
       IN  versions' =
             IF rel.prerelease \/ rel.draft THEN versions
             ELSE IF tag = << >> THEN versions
             ELSE IF Len(parts) >= 2 /\ int(parts[1]) # None /\ int(parts[2]) # None
             THEN Append(versions, [ major |-> The(int(parts[1])),
                                     minor |-> The(int(parts[2])),
                                     ver |-> ver ])
             ELSE versions
    /\ scanned' = scanned + 1
    /\ UNCHANGED << releases, gpc, gitea_out, uvars, hvars, cvars >>

\* lines 143-159: the list is sorted and the answer returned
Select ==
    /\ gpc = "scan"
    /\ scanned = Len(releases)
    /\ versions' = SortDescending(versions)
    /\ gitea_out' = IF versions = << >> THEN None ELSE Selected(SortDescending(versions))
    /\ gpc' = "returned"
    /\ UNCHANGED << releases, scanned, uvars, hvars, cvars >>

UpdateIdle ==
    /\ rows = << >>
    /\ rows0 = << >>
    /\ rows1 = << >>
    /\ workers = DefaultWorkers
    /\ github_workers = DefaultGithubWorkers
    /\ pc = "idle"
    /\ row_map = << >>
    /\ futures = << >>
    /\ collected = {}
    /\ results = << >>
    /\ updated = 0
    /\ run = 0
    /\ stub = << >>

InitGitea ==
    /\ releases \in UNION { [ 1..n -> ReleasePool ] : n \in 0..MaxReleases }
    /\ gpc = "scan"
    /\ scanned = 0
    /\ versions = << >>
    /\ gitea_out = None
    /\ UpdateIdle
    /\ HttpIdle
    /\ ChecklistIdle

NextGitea ==
    \/ Scan
    \/ Select

SpecGitea == InitGitea /\ [][NextGitea]_vars

----------------------------------------------------------------------------
(* Properties of get_gitea_latest. *)

\* the version text of release k
VerOf(k) == _strip_v_prefix(strip(releases[k].tag_name))

\* the (major, minor) of a version text, None when it has none
PairOf(ver) ==
    LET parts == split(ver)
    IN  IF Len(parts) >= 2 /\ int(parts[1]) # None /\ int(parts[2]) # None
        THEN Some(<< The(int(parts[1])), The(int(parts[2])) >>)
        ELSE None

\* the releases that count: not a prerelease, not a draft, with a pair
Qualifying ==
    { k \in DOMAIN releases :
        ~ releases[k].prerelease /\ ~ releases[k].draft /\ PairOf(VerOf(k)) # None }

PairLess(p, q) == p[1] < q[1] \/ (p[1] = q[1] /\ p[2] < q[2])

\* the globally latest (major, minor)
LatestPair ==
    LET pairs == { The(PairOf(VerOf(k))) : k \in Qualifying }
    IN  CHOOSE p \in pairs : \A q \in pairs : ~ PairLess(p, q)

\* the qualifying releases of the minor before the latest
PreviousMinor ==
    { k \in Qualifying : The(PairOf(VerOf(k))) = << LatestPair[1], LatestPair[2] - 1 >> }

\* C11: with a qualifying release of the minor before the latest, the answer
\* is the version of that minor with the greatest numeric tuple; an answer is
\* always the version of a qualifying release (no prerelease, no draft) and
\* never one of the latest pair.
C11_PreviousMinor ==
    (gpc = "returned" /\ Qualifying # {}) =>
        /\ PreviousMinor # {} =>
              /\ gitea_out # None
              /\ \E k \in PreviousMinor :
                    /\ The(gitea_out) = VerOf(k)
                    /\ \A j \in PreviousMinor :
                          ~ TupleLess(_parse_semver_tuple(VerOf(k)), _parse_semver_tuple(VerOf(j)))
        /\ gitea_out # None =>
              \E k \in Qualifying :
                    /\ The(gitea_out) = VerOf(k)
                    /\ The(PairOf(VerOf(k))) # LatestPair

\* 2.16.10 is chosen over 2.16.9, with 2.17.0 the latest
C11_Witness ==
    /\ gpc = "returned"
    /\ Len(releases) = 3
    /\ { VerOf(k) : k \in Qualifying } =
         { << "2", ".", "17", ".", "0" >>, << "2", ".", "16", ".", "9" >>,
           << "2", ".", "16", ".", "10" >> }
    /\ VerOf(1) = << "2", ".", "16", ".", "10" >>
    /\ gitea_out = Some(<< "2", ".", "16", ".", "10" >>)

\* C12: when the minor of the latest pair is greater than 0, the answer is a
\* release of the previous minor of the same major or there is no answer; a
\* release of the previous major is the answer only when that minor is 0.
C12_PreviousMajorOnlyAtMinorZero ==
    (gpc = "returned" /\ gitea_out # None /\ LatestPair[2] > 0) =>
        The(PairOf(The(gitea_out))) = << LatestPair[1], LatestPair[2] - 1 >>


----------------------------------------------------------------------------
(* The checklist generator, tools_generate_checklist.py.  A text is the
   sequence of its characters, a word without any of the characters
   - [ ] x X * ( ) : or the grave accent, and without whitespace, being kept
   as one piece. *)

\* the most rows of the CSV file
MaxCsvRows == 2

NL == "\n"

\* the arrow of the item line, U+2192
Arrow == "->"

\* the grave accent, U+0060
Grave == "GRAVE"

\* str(n) of the f-string
Str(n) == CASE n = 0 -> "0" [] n = 1 -> "1" [] n = 2 -> "2" [] n = 3 -> "3" [] n = 4 -> "4"

\* the rows of the CSV: an update; a second row of the same name; versions
\* that differ by whitespace only; a formal name with an asterisk and no
\* desired version; no latest version; padded fields and no formal name
CsvPool ==
    { Row(<< "git" >>, << "Git" >>, << "1" >>, << "2" >>, << >>),
      Row(<< "git" >>, << "Git", WS, "LFS" >>, << "2" >>, << "3" >>, << >>),
      Row(<< "python" >>, << "Python" >>, << WS, "2" >>, << "2" >>, << >>),
      Row(<< "star" >>, << "Star", "*" >>, << >>, << "1" >>, << >>),
      Row(<< "foo" >>, << "Foo" >>, << "1" >>, << >>, << >>),
      Row(<< WS, "vim" >>, << >>, << "1" >>, << "2", WS >>, << >>) }

\* (mutant) the versions are compared as they stand in the file
HasUpdateUntrimmed(row) ==
    row.latest_version # << >> /\ row.latest_version # row.desired_version

\* line 33: latest and latest != desired, both trimmed
HasUpdate(row) ==
    strip(row.latest_version) # << >>
        /\ strip(row.latest_version) # strip(row.desired_version)

\* lines 34-39: the entry of a row; row is the index it came from (ghost)
UpdateOf(rs, i) ==
    [ name |-> strip(rs[i].name),
      formal_name |-> IF strip(rs[i].formal_name) # << >>
                      THEN strip(rs[i].formal_name) ELSE strip(rs[i].name),
      desired |-> IF strip(rs[i].desired_version) # << >>
                  THEN strip(rs[i].desired_version) ELSE << "(", "empty", ")" >>,
      latest |-> strip(rs[i].latest_version),
      row |-> i ]

\* lines 26-39: the updates of the first n rows, in the order of the rows
RECURSIVE UpdatesUpTo(_, _)
UpdatesUpTo(rs, n) ==
    IF n = 0 THEN << >>
    ELSE IF HasUpdate(rs[n]) THEN Append(UpdatesUpTo(rs, n - 1), UpdateOf(rs, n))
    ELSE UpdatesUpTo(rs, n - 1)

Updates(rs) == UpdatesUpTo(rs, Len(rs))

\* line 49: the line of an item
ItemLine(u) ==
    << "-", WS, "[", WS, "]", WS, "*", "*" >> \o u.formal_name
        \o << "*", "*", WS, "(", Grave >> \o u.name
        \o << Grave, ")", ":", WS >> \o u.desired
        \o << WS, Arrow, WS >> \o u.latest

\* lines 41-51: the lines printed for the updates us
Printed(us) ==
    IF us = << >>
    THEN << << "No", WS, "updates", WS, "available", "." >> >>
    ELSE << << "##", WS, "Update", WS, "Checklist" >>,
            << >>,
            << "Check", WS, "the", WS, "items", WS, "you", WS, "want", WS, "to", WS, "update", ":" >>,
            << >> >>
         \o [ k \in 1..Len(us) |-> ItemLine(us[k]) ]
         \o << << >>,
               << "-", "-", "-" >>,
               << "*", Str(Len(us)), WS, "update", "(", "s", ")", WS, "available", "*" >> >>

\* the generator runs on the CSV file
Generate ==
    /\ cpc \in { "csv", "applied" }
    /\ updates' = Updates(csv)
    /\ updates1' = IF cpc = "csv" THEN Updates(csv) ELSE updates1
    /\ stdout' = Printed(Updates(csv))
    /\ status' = Some(0)
    /\ cpc' = IF cpc = "csv" THEN "printed" ELSE "again"
    /\ UNCHANGED << csv, csv0, marks, pr_body, checked_names, written, uvars, hvars, gvars >>


----------------------------------------------------------------------------
(* The apply step, tools_apply_checked.py. *)

\* the text of the lines, each ended by a newline
RECURSIVE Join(_)
Join(lines) ==
    IF lines = << >> THEN << >>
    ELSE Head(lines) \o << NL >> \o Join(Tail(lines))

\* the place of the item lines in the output: after the four lines of the head
HeadLines == 4

\* the reader puts mark in the box of an item line
Tick(line, mark) == << "-", WS, "[", mark, "]" >> \o SubSeq(line, 6, Len(line))

\* the printed lines with mark m[k] in the box of item k
Ticked(lines, m) ==
    [ k \in DOMAIN lines |->
        IF k - HeadLines \in DOMAIN m THEN Tick(lines[k], m[k - HeadLines]) ELSE lines[k] ]

\* the text b has the literal lit at place p
StartsWith(b, p, lit) ==
    /\ p + Len(lit) - 1 <= Len(b)
    /\ \A j \in DOMAIN lit : b[p + j - 1] = lit[j]

\* [^c]+ from place p: the place of the first c at or after p, Len(b) + 1
\* when there is none
RECURSIVE RunEnd(_, _, _)
RunEnd(b, p, c) ==
    IF p > Len(b) THEN p
    ELSE IF b[p] = c THEN p
    ELSE RunEnd(b, p + 1, c)

\* the match of the pattern of line 17 that starts at place s, if any: its
\* group 1 and the place after its end.  re.IGNORECASE makes x stand for X
\* as well; each run ends at the first character it excludes, which the
\* literal that follows it begins with, so no shorter run can match
Match(b, s) ==
    LET f0 == s + 8
        f1 == RunEnd(b, f0, "*")
        n0 == f1 + 5
        n1 == RunEnd(b, n0, Grave)
    IN  IF /\ StartsWith(b, s, << "-", WS, "[" >>)
           /\ s + 3 <= Len(b)
           /\ b[s + 3] \in { "x", "X" }
           /\ StartsWith(b, s + 4, << "]", WS, "*", "*" >>)
           /\ f1 > f0
           /\ StartsWith(b, f1, << "*", "*", WS, "(", Grave >>)
           /\ n1 > n0
           /\ StartsWith(b, n1, << Grave, ")", ":" >>)
        THEN Some([ group |-> SubSeq(b, n0, n1 - 1), end |-> n1 + 3 ])
        ELSE None

\* re.finditer from place s on: the matches do not overlap
RECURSIVE FindAll(_, _)
FindAll(b, s) ==
    IF s > Len(b) THEN {}
    ELSE IF Match(b, s) = None THEN FindAll(b, s + 1)
    ELSE { The(Match(b, s)).group } \cup FindAll(b, The(Match(b, s)).end)

\* parse_checklist(body): the names of the checked items
parse_checklist(body) == FindAll(body, 1)

\* lines 68-70: latest and latest != desired, both trimmed
ShouldApply(row) ==
    strip(row.latest_version) # << >>
        /\ strip(row.latest_version) # strip(row.desired_version)

\* lines 65-73: the rows after the loop
Applied(rs, checked) ==
    [ i \in DOMAIN rs |->
        IF strip(rs[i].name) \in checked /\ ShouldApply(rs[i])
        THEN [ rs[i] EXCEPT !.desired_version = strip(rs[i].latest_version) ]
        ELSE rs[i] ]

\* the reader marks the items of the printed checklist: the pull request body
Check ==
    /\ cpc = "printed"
    /\ \E m \in [ 1..Len(updates) -> { WS, "x", "X" } ] :
          /\ marks' = m
          /\ pr_body' = Join(Ticked(stdout, m))
    /\ cpc' = "body"
    /\ UNCHANGED << csv, csv0, updates, updates1, stdout, status, checked_names, written,
                    uvars, hvars, gvars >>

\* main of the apply step: nothing is written when no item is checked
Apply ==
    /\ cpc = "body"
    /\ checked_names' = parse_checklist(pr_body)
    /\ csv0' = csv
    /\ IF parse_checklist(pr_body) = {}
       THEN csv' = csv /\ written' = FALSE
       ELSE csv' = Applied(csv, parse_checklist(pr_body)) /\ written' = TRUE
    /\ cpc' = "applied"
    /\ UNCHANGED << updates, updates1, stdout, status, marks, pr_body, uvars, hvars, gvars >>

InitChecklist ==
    /\ csv \in UNION { [ 1..n -> CsvPool ] : n \in 0..MaxCsvRows }
    /\ csv0 = << >>
    /\ updates = << >>
    /\ updates1 = << >>
    /\ stdout = << >>
    /\ status = None
    /\ marks = << >>
    /\ pr_body = << >>
    /\ checked_names = {}
    /\ written = FALSE
    /\ cpc = "csv"
    /\ UpdateIdle
    /\ HttpIdle
    /\ GiteaIdle

NextChecklist ==
    \/ Generate
    \/ Check
    \/ Apply

SpecChecklist == InitChecklist /\ [][NextChecklist]_vars


----------------------------------------------------------------------------
(* Properties of the checklist round. *)

\* the rows with a latest version that is not the desired one, trimmed
Differing(rs) ==
    { i \in DOMAIN rs :
        /\ strip(rs[i].latest_version) # << >>
        /\ strip(rs[i].latest_version) # strip(rs[i].desired_version) }

\* the lines of the output that are items
Items == { k \in DOMAIN stdout : StartsWith(stdout[k], 1, << "-", WS, "[" >>) }

\* the items the reader checked, and the rows they were printed for
CheckedItems == { k \in DOMAIN marks : marks[k] \in { "x", "X" } }

CheckedRows == { updates1[k].row : k \in CheckedItems }

UncheckedRows == { updates1[k].row : k \in DOMAIN marks \ CheckedItems }

\* C16: the generator prints one item for each row whose trimmed latest
\* version is non-empty and not its trimmed desired version, and for no
\* other row; the summary line gives the number of items; with no such row it
\* prints "No updates available." and no item; it exits with status 0.
C16_ItemsForUpdates ==
    cpc \in { "printed", "again" } =>
        /\ status = Some(0)
        /\ { updates[k].row : k \in DOMAIN updates } = Differing(csv)
        /\ Len(updates) = Cardinality(Differing(csv))
        /\ Cardinality(Items) = Cardinality(Differing(csv))
        /\ \A k \in DOMAIN updates : stdout[HeadLines + k] = ItemLine(updates[k])
        /\ Differing(csv) # {} =>
              stdout[Len(stdout)] =
                << "*", Str(Cardinality(Items)), WS, "update", "(", "s", ")", WS, "available", "*" >>
        /\ Differing(csv) = {} =>
              /\ stdout = << << "No", WS, "updates", WS, "available", "." >> >>
              /\ Items = {}

\* of two rows one differs by whitespace only: one item, "1 update(s)"
C16_Witness ==
    /\ cpc = "printed"
    /\ Len(csv) = 2
    /\ \E i \in DOMAIN csv :
          /\ csv[i].latest_version # csv[i].desired_version
          /\ i \notin Differing(csv)
    /\ Cardinality(Items) = 1
    /\ stdout[Len(stdout)][2] = "1"

\* C13: the name of every item the reader checked, with x or with X, is in
\* the set parse_checklist gives for the text; the line of an item left
\* unchecked gives no name.
C13_RoundTrip ==
    cpc = "applied" =>
        \A k \in DOMAIN marks :
            /\ k \in CheckedItems => updates1[k].name \in checked_names
            /\ k \notin CheckedItems =>
                  parse_checklist(Tick(stdout[HeadLines + k], marks[k])) = {}

\* C20: the apply step changes nothing but desired_version, and that only on
\* rows whose name is checked, where it becomes the trimmed latest version if
\* that is non-empty and differs; and when every checked item was recognised
\* (C13), the checklist generated after the apply step holds exactly the
\* items that were left unchecked.
C20_ApplyThenRegenerate ==
    cpc \in { "applied", "again" } =>
        /\ Len(csv) = Len(csv0)
        /\ \A i \in DOMAIN csv :
              /\ [ csv[i] EXCEPT !.desired_version = csv0[i].desired_version ] = csv0[i]
              /\ strip(csv0[i].name) \notin checked_names => csv[i] = csv0[i]
              /\ strip(csv0[i].name) \in checked_names =>
                    csv[i].desired_version =
                        IF i \in Differing(csv0) THEN strip(csv0[i].latest_version)
                        ELSE csv0[i].desired_version
        /\ ( /\ cpc = "again"
             /\ \A k \in CheckedItems : updates1[k].name \in checked_names )
           => /\ { updates[k].row : k \in DOMAIN updates } = UncheckedRows
              /\ \A k \in DOMAIN updates :
                    \E j \in DOMAIN marks \ CheckedItems : updates[k] = updates1[j]

============================================================================
